---- MODULE Spec2Model ----
(***************************************************************************)
(* Model of src/Crawler.py: class WikipediaCrawler.                        *)
(*                                                                         *)
(* Text (HTML, titles, URL paths) is a sequence of one-character strings.  *)
(* A URL is a sequence whose first element is the origin (scheme plus      *)
(* host, one token) and whose remaining elements are the characters of     *)
(* path, query and fragment.                                               *)
(***************************************************************************)
EXTENDS Integers, Sequences, FiniteSets, Bags, TLC

(***************************************************************************)
(* Bounds of the model.                                                    *)
(***************************************************************************)
\* largest max_depth argument passed to crawl
MaxDepth == 3
\* number of public method calls (crawl, save_links, _initialize_database)
\* made on the crawler object after its construction
MaxCalls == 2

(***************************************************************************)
(* Text helpers.                                                           *)
(***************************************************************************)
QUOTE == "\""

RECURSIVE Flatten(_)
Flatten(ss) == IF ss = <<>> THEN <<>> ELSE Head(ss) \o Flatten(Tail(ss))

Range(s) == {s[i] : i \in 1..Len(s)}

\* TRUE iff the text p occurs in s starting at index i
OccursAt(p, s, i) ==
    /\ i + Len(p) - 1 <= Len(s)
    /\ \A k \in 1..Len(p) : s[i + k - 1] = p[k]

(***************************************************************************)
(* extract_links, lines 57-63.                                             *)
(***************************************************************************)
\* line 24
BASE_URL == "https://ru.wikipedia.org"

\* the literal prefix href="/wiki/ of the pattern of line 60
HrefPrefix == <<"h", "r", "e", "f", "=", QUOTE, "/", "w", "i", "k", "i", "/">>

\* a class that forgets the colon: [^"#]
ClassExcludedNoColon == {QUOTE, "#"}

\* the characters the class [^":#] of line 60 rejects
ClassExcluded == {QUOTE, ":", "#"}

\* [^":#]+ is greedy and cannot give a character back to the closing quote
\* (the class excludes the quote): the run starting at j ends right before
\* the first excluded character, or at the end of the text.
RunEnd(s, j) ==
    LET End[k \in 1..(Len(s) + 1)] ==
            IF k > Len(s) \/ s[k] \in ClassExcluded THEN k ELSE End[k + 1]
    IN  End[j]

\* re.findall(r'href="/wiki/([^":#]+)"', html) scanning from index i: the
\* captured groups of the non-overlapping matches, left to right.  After a
\* match the scan resumes behind its closing quote, otherwise one character
\* further.
FindAll(html, i) ==
    LET From[k \in 1..(Len(html) + 1)] ==
            IF k > Len(html) THEN <<>>
            ELSE IF OccursAt(HrefPrefix, html, k)
                 THEN LET b == k + Len(HrefPrefix)
                          e == RunEnd(html, b)
                      IN  IF e > b /\ e <= Len(html) /\ html[e] = QUOTE
                          THEN <<SubSeq(html, b, e - 1)>> \o From[e + 1]
                          ELSE From[k + 1]
                 ELSE From[k + 1]
    IN  From[i]

\* line 61: f"{self.BASE_URL}/wiki/{match}"
FullUrl(match) == <<BASE_URL>> \o <<"/", "w", "i", "k", "i", "/">> \o match

\* lines 59-63
extract_links(html) == {FullUrl(m) : m \in Range(FindAll(html, 1))}

(***************************************************************************)
(* fetch_page, lines 43-55.                                                *)
(***************************************************************************)
\* urlparse, line 46: the origin, the path (up to the first ? or #) and
\* what follows the path
PathEnd(s, j) ==
    LET End[k \in 1..(Len(s) + 1)] ==
            IF k > Len(s) \/ s[k] \in {"?", "#"} THEN k ELSE End[k + 1]
    IN  End[j]

urlparse(url) ==
    LET rest == Tail(url)
        e    == PathEnd(rest, 1)
    IN  [origin |-> Head(url),
         path   |-> SubSeq(rest, 1, e - 1),
         suffix |-> SubSeq(rest, e, Len(rest))]

\* urllib.parse.quote with its default safe="/": letters, digits, "_.-~"
\* and "/" are kept, every other character becomes the %XX of its UTF-8
\* bytes.  The table lists the unsafe characters of the model's alphabet;
\* "U+0414" stands for the one Cyrillic character of the docstring's URL.
PercentTable ==
    (":" :> <<"%", "3", "A">>) @@ ("%" :> <<"%", "2", "5">>) @@
    (" " :> <<"%", "2", "0">>) @@ ("=" :> <<"%", "3", "D">>) @@
    (QUOTE :> <<"%", "2", "2">>) @@ ("<" :> <<"%", "3", "C">>) @@
    (">" :> <<"%", "3", "E">>) @@
    ("U+0414" :> <<"%", "D", "0", "%", "9", "4">>)

quote(path) ==
    LET Done[k \in 0..Len(path)] ==
            IF k = 0 THEN <<>>
            ELSE Done[k - 1] \o (IF path[k] \in DOMAIN PercentTable
                                 THEN PercentTable[path[k]] ELSE <<path[k]>>)
    IN  Done[Len(path)]

\* lines 46-48: urlunparse(parsed_url._replace(path=quote(parsed_url.path)))
encoded_url(url) ==
    LET p == urlparse(url) IN <<p.origin>> \o quote(p.path) \o p.suffix

\* What the network can answer to one request.
\*   ok           200 and a body that decodes (only for a page that exists)
\*   status_404   a response object whose status is 404 (lines 51-52)
\*   http_error   urlopen raises HTTPError (404 and other error statuses)
\*   url_error    urlopen raises URLError (DNS, refused connection)
\*   timeout      urlopen or read raises TimeoutError
\*   decode_error decode('utf-8') raises UnicodeDecodeError
NetOutcomes ==
    {"ok", "status_404", "http_error", "url_error", "timeout", "decode_error"}

\* the exception the body of the try block (lines 46-53) raises
Raised(net) ==
    CASE net = "http_error"   -> "HTTPError"
      [] net = "url_error"    -> "URLError"
      [] net = "timeout"      -> "TimeoutError"
      [] net = "decode_error" -> "UnicodeDecodeError"
      [] OTHER                -> "none"

\* Python's class hierarchy above each of these exceptions
Bases ==
    ("HTTPError" :> {"HTTPError", "URLError", "OSError", "Exception"}) @@
    ("URLError" :> {"URLError", "OSError", "Exception"}) @@
    ("TimeoutError" :> {"TimeoutError", "OSError", "Exception"}) @@
    ("UnicodeDecodeError" :>
        {"UnicodeDecodeError", "UnicodeError", "ValueError", "Exception"})

\* a handler that names only the urllib errors
HandlerCatchesUrlErrorOnly(exc) == "URLError" \in Bases[exc]

\* line 54: except Exception
HandlerCatches(exc) == "Exception" \in Bases[exc]

\* lines 43-55 on the site `site` (requested URL -> body) when the network
\* answers `net`: the returned text, or raised = TRUE when an exception
\* leaves the method
fetch_page(site, url, net) ==
    LET exc == Raised(net) IN
    IF exc # "none"
    THEN IF HandlerCatches(exc)
         THEN [raised |-> FALSE, value |-> <<>>]
         ELSE [raised |-> TRUE, value |-> <<>>]
    ELSE IF net = "status_404"
         THEN [raised |-> FALSE, value |-> <<>>]
         ELSE [raised |-> FALSE, value |-> site[encoded_url(url)]]

(***************************************************************************)
(* The database, lines 31-41 and 65-73.  The table links is the bag of    *)
(* the values of its url column (the id column is never read).            *)
(***************************************************************************)
\* CREATE TABLE that replaces an existing table
CreateTableAnew(database) == [exists |-> TRUE, rows |-> EmptyBag]

\* lines 35-41: CREATE TABLE IF NOT EXISTS links (... url TEXT UNIQUE)
initialize_database(database) ==
    IF database.exists THEN database ELSE [exists |-> TRUE, rows |-> EmptyBag]

\* INSERT without the UNIQUE conflict being checked
InsertAlways(rows, link) == rows (+) SetToBag({link})

\* line 70: INSERT OR IGNORE of one row: a row whose url is already in the
\* table conflicts with UNIQUE and is ignored
InsertOrIgnore(rows, link) ==
    IF BagIn(link, rows) THEN rows ELSE rows (+) SetToBag({link})

\* lines 69-72: executemany over the links, one INSERT OR IGNORE each.  The
\* order in which the set is listed is not fixed; with rows a bag every order
\* gives the same table, so one order is taken.
RECURSIVE InsertMany(_, _)
InsertMany(rows, links) ==
    IF links = {} THEN rows
    ELSE LET l == CHOOSE x \in links : TRUE
         IN  InsertMany(InsertOrIgnore(rows, l), links \ {l})

\* lines 65-73
save_links(database, links) ==
    [database EXCEPT !.rows = InsertMany(database.rows, links)]

(***************************************************************************)
(* The site crawled: pages and the sites the model draws from.             *)
(***************************************************************************)
TitleA == <<"A">>
TitleB == <<"B">>
TitleC == <<"C">>
TitleD == <<"D">>
TitleTalkB == <<"T", "a", "l", "k", ":", "B">>
TitleBFrag == <<"B", "#", "s">>
\* the Cyrillic title of the docstring's URL, as typed and as the hrefs of
\* the served pages spell it
TitleCyr == <<"U+0414">>
TitleCyrEncoded == <<"%", "D", "0", "%", "9", "4">>

UrlA == FullUrl(TitleA)
UrlB == FullUrl(TitleB)
UrlC == FullUrl(TitleC)
\* an article address that no site of the model serves
UrlD == FullUrl(TitleD)
\* the two spellings of the address of the Cyrillic article
UrlCyr == FullUrl(TitleCyr)
UrlCyrEncoded == FullUrl(TitleCyrEncoded)

\* an anchor element whose href is /wiki/<title>
Anchor(title) == <<"<", "a", " ">> \o HrefPrefix \o title \o <<QUOTE, ">">>

\* a page body holding one anchor per title, in order
Doc(titles) ==
    <<"<", "p", ">">> \o Flatten([i \in 1..Len(titles) |-> Anchor(titles[i])])

Site(a, b, c) == (UrlA :> a) @@ (UrlB :> b) @@ (UrlC :> c)

\* chain A -> B -> C -> D, D missing
SiteChain == Site(Doc(<<TitleB>>), Doc(<<TitleC>>), Doc(<<TitleD>>))
\* cycle A -> B -> A
SiteCycle == Site(Doc(<<TitleB>>), Doc(<<TitleA>>), Doc(<<>>))
\* A links to article B and to namespace page Talk:B; B to a fragment
SiteTalk == Site(Doc(<<TitleB, TitleTalkB>>), Doc(<<TitleBFrag, TitleC>>), Doc(<<>>))
\* A -> {B, C}, B <-> C
SiteDiamond == Site(Doc(<<TitleB, TitleC>>), Doc(<<TitleC>>), Doc(<<TitleB>>))
\* B answers 200 with an empty body
SiteEmptyBody == Site(Doc(<<TitleB, TitleC>>), <<>>, Doc(<<TitleA, TitleB>>))

\* A and the Cyrillic article link to the Cyrillic article, whose href is
\* percent-encoded; the server serves it at the percent-encoded address
SiteCyrillic ==
    Site(Doc(<<TitleCyrEncoded>>), Doc(<<>>), Doc(<<>>))
        @@ (UrlCyrEncoded :> Doc(<<TitleCyrEncoded>>))

Sites ==
    {SiteChain, SiteCycle, SiteTalk, SiteDiamond, SiteEmptyBody, SiteCyrillic}

\* the seed URLs passed to crawl
Seeds == {UrlA, UrlB, UrlD, UrlCyr}

\* what the links table of an existing database file may hold when the
\* crawler object is constructed
InitialRows == {EmptyBag, SetToBag({UrlB}), SetToBag({UrlC, UrlD})}

\* the link sets passed to save_links by a direct call
DirectLinkSets == {{}, {UrlA}, {UrlB, UrlC}}

(***************************************************************************)
(* State.                                                                  *)
(***************************************************************************)
VARIABLES
    web,             \* the site: requested URL -> body; other URLs are 404
    db,              \* the SQLite file: [exists, rows]
    pc,              \* position of the crawler object's current call
    start_url,       \* crawl's arguments
    max_depth,
    to_visit,        \* crawl's locals, lines 77-95
    visited,
    current_depth,
    next_to_visit,
    todo,            \* members of to_visit the for loop of line 83 has left
    url,
    html,
    links,
    net,             \* the network's answer to the fetch in progress
    fetched,         \* history: the fetches of this crawl, in order
    db0,             \* history: db.rows when this crawl started
    calls,           \* history: the public calls made so far, by name
    twin             \* the same crawl run by a new object on an empty database

vars == <<web, db, pc, start_url, max_depth, to_visit, visited, current_depth,
          next_to_visit, todo, url, html, links, net, fetched, db0, calls, twin>>

NoUrl == <<>>

\* the crawler's state as one record
Frame ==
    [db |-> db, pc |-> pc, start_url |-> start_url, max_depth |-> max_depth,
     to_visit |-> to_visit, visited |-> visited,
     current_depth |-> current_depth, next_to_visit |-> next_to_visit,
     todo |-> todo, url |-> url, html |-> html, links |-> links, net |-> net,
     fetched |-> fetched, db0 |-> db0]

\* no call in progress, on database d
Idle(d) ==
    [db |-> d, pc |-> "idle", start_url |-> NoUrl, max_depth |-> 0,
     to_visit |-> {}, visited |-> {}, current_depth |-> 0,
     next_to_visit |-> {}, todo |-> {}, url |-> NoUrl, html |-> <<>>,
     links |-> {}, net |-> "none", fetched |-> <<>>, db0 |-> d.rows]

\* the next state's variables are the fields of the frame f (a value: the
\* actions bind the frame a step returns before they assign it)
Becomes(f) ==
    /\ db' = f.db /\ pc' = f.pc /\ start_url' = f.start_url
    /\ max_depth' = f.max_depth /\ to_visit' = f.to_visit
    /\ visited' = f.visited /\ current_depth' = f.current_depth
    /\ next_to_visit' = f.next_to_visit /\ todo' = f.todo /\ url' = f.url
    /\ html' = f.html /\ links' = f.links /\ net' = f.net
    /\ fetched' = f.fetched /\ db0' = f.db0

\* the variables are the fields of f
Is(f) ==
    /\ db = f.db /\ pc = f.pc /\ start_url = f.start_url
    /\ max_depth = f.max_depth /\ to_visit = f.to_visit
    /\ visited = f.visited /\ current_depth = f.current_depth
    /\ next_to_visit = f.next_to_visit /\ todo = f.todo /\ url = f.url
    /\ html = f.html /\ links = f.links /\ net = f.net
    /\ fetched = f.fetched /\ db0 = f.db0

\* a database file that __init__ (lines 26-29) has just created
NewDatabase == initialize_database([exists |-> FALSE, rows |-> EmptyBag])

(***************************************************************************)
(* crawl, lines 75-96, one operator per step, on a frame.                  *)
(***************************************************************************)
\* a crawl that resumes from the stored links instead of starting empty
crawl_enter_resume(f, seed, depth) ==
    [Idle(f.db) EXCEPT !.pc = "while", !.start_url = seed,
                       !.max_depth = depth, !.to_visit = {seed},
                       !.visited = BagToSet(f.db.rows), !.current_depth = 0]

\* lines 77-79
crawl_enter(f, seed, depth) ==
    [Idle(f.db) EXCEPT !.pc = "while", !.start_url = seed,
                       !.max_depth = depth, !.to_visit = {seed},
                       !.visited = {}, !.current_depth = 0]

\* the loop test with <= in place of <
LoopConditionInclusive(f) == f.to_visit # {} /\ f.current_depth <= f.max_depth

\* the loop test without the depth limit
LoopConditionNoDepth(f) == f.to_visit # {}

\* line 81
LoopCondition(f) == f.to_visit # {} /\ f.current_depth < f.max_depth

\* lines 81-83: the loop test, then the fresh next_to_visit and the iterator
while_test(f) ==
    IF LoopCondition(f)
    THEN [f EXCEPT !.pc = "for", !.next_to_visit = {}, !.todo = f.to_visit]
    ELSE [f EXCEPT !.pc = "done"]

\* the for loop without the test of line 84
NeverVisited(f, u) == FALSE

\* line 84
AlreadyVisited(f, u) == u \in f.visited

\* lines 83-87: the for loop hands out u; a visited u is skipped
for_next(f, u) ==
    [f EXCEPT !.todo = f.todo \ {u}, !.url = u,
              !.pc = IF AlreadyVisited(f, u) THEN "for" ELSE "fetch"]

\* line 88: html = self.fetch_page(url), r being what the call gave for the
\* network's answer
fetch(f, r, answer) ==
    [f EXCEPT !.html = r.value, !.net = answer,
              !.fetched = Append(f.fetched,
                                 [url |-> f.url, depth |-> f.current_depth,
                                  ok |-> ~r.raised /\ r.value # <<>>]),
              !.pc = IF r.raised THEN "raised" ELSE "check"]

\* lines 89-91 without the call of save_links
persist_unsaved(f) ==
    IF f.html # <<>>
    THEN [f EXCEPT !.links = extract_links(f.html), !.net = "none",
                   !.pc = "mark"]
    ELSE [f EXCEPT !.net = "none", !.pc = "for"]

\* lines 89-93 with the loop left on an empty html
persist_abort(f) ==
    IF f.html # <<>>
    THEN LET found == extract_links(f.html) IN
         [f EXCEPT !.links = found, !.db = save_links(f.db, found),
                   !.net = "none", !.pc = "mark"]
    ELSE [f EXCEPT !.net = "none", !.pc = "done"]

\* lines 89-93 with visited.add(url) outside the test of html
persist_marks_failed(f) ==
    IF f.html # <<>>
    THEN LET found == extract_links(f.html) IN
         [f EXCEPT !.links = found, !.db = save_links(f.db, found),
                   !.net = "none", !.pc = "mark"]
    ELSE [f EXCEPT !.links = {}, !.net = "none", !.pc = "mark"]

\* lines 89-91: an empty html ends the iteration; otherwise the links are
\* extracted and saved
persist(f) ==
    IF f.html # <<>>
    THEN LET found == extract_links(f.html) IN
         [f EXCEPT !.links = found, !.db = save_links(f.db, found),
                   !.net = "none", !.pc = "mark"]
    ELSE [f EXCEPT !.net = "none", !.pc = "for"]

\* lines 92-93 with next_to_visit.update(links)
mark_unfiltered(f) ==
    [f EXCEPT !.visited = f.visited \cup {f.url},
              !.next_to_visit = f.next_to_visit \cup f.links,
              !.pc = "for"]

\* lines 92-93
mark(f) ==
    LET seen == f.visited \cup {f.url} IN
    [f EXCEPT !.visited = seen,
              !.next_to_visit = f.next_to_visit \cup (f.links \ seen),
              !.pc = "for"]

\* the round end without line 96
round_end_same_depth(f) ==
    [f EXCEPT !.to_visit = f.next_to_visit, !.pc = "while"]

\* lines 95-96
round_end(f) ==
    [f EXCEPT !.to_visit = f.next_to_visit,
              !.current_depth = f.current_depth + 1, !.pc = "while"]

\* the twin takes the step the crawler takes when it is at the same
\* position and can take it; otherwise the two runs have parted
Diverged(t) == [t EXCEPT !.pc = "diverged"]

(***************************************************************************)
(* Actions.                                                                *)
(***************************************************************************)
Resting == pc \in {"idle", "done"}

\* what the network can answer for a requested URL: a page that exists can
\* be served or fail, a page that does not exist is an HTTP error
Answers(u) ==
    IF encoded_url(u) \in DOMAIN web THEN NetOutcomes
    ELSE NetOutcomes \ {"ok"}

StartCrawl(seed, depth) ==
    /\ Resting /\ Len(calls) < MaxCalls
    /\ \E g \in {crawl_enter(Frame, seed, depth)} : Becomes(g)
    /\ twin' = crawl_enter(Idle(NewDatabase), seed, depth)
    /\ calls' = Append(calls, "crawl")
    /\ UNCHANGED web

WhileTest ==
    /\ pc = "while"
    /\ \E g \in {while_test(Frame)} : Becomes(g)
    /\ twin' = IF twin.pc = "while" THEN while_test(twin) ELSE Diverged(twin)
    /\ UNCHANGED <<web, calls>>

ForNext ==
    /\ pc = "for"
    /\ \E u \in todo :
          /\ \E g \in {for_next(Frame, u)} : Becomes(g)
          /\ twin' = IF twin.pc = "for" /\ u \in twin.todo
                     THEN for_next(twin, u) ELSE Diverged(twin)
    /\ UNCHANGED <<web, calls>>

Fetch ==
    /\ pc = "fetch"
    /\ \E answer \in Answers(url) :
          \E r \in {fetch_page(web, url, answer)} :
             /\ \E g \in {fetch(Frame, r, answer)} : Becomes(g)
             /\ twin' = IF twin.pc = "fetch" /\ twin.url = url
                        THEN fetch(twin, r, answer) ELSE Diverged(twin)
    /\ UNCHANGED <<web, calls>>

Persist ==
    /\ pc = "check"
    /\ \E g \in {persist(Frame)} : Becomes(g)
    /\ twin' = IF twin.pc = "check" THEN persist(twin) ELSE Diverged(twin)
    /\ UNCHANGED <<web, calls>>

Mark ==
    /\ pc = "mark"
    /\ \E g \in {mark(Frame)} : Becomes(g)
    /\ twin' = IF twin.pc = "mark" THEN mark(twin) ELSE Diverged(twin)
    /\ UNCHANGED <<web, calls>>

RoundEnd ==
    /\ pc = "for" /\ todo = {}
    /\ \E g \in {round_end(Frame)} : Becomes(g)
    /\ twin' = IF twin.pc = "for" /\ twin.todo = {}
               THEN round_end(twin) ELSE Diverged(twin)
    /\ UNCHANGED <<web, calls>>

\* a direct call of save_links(set); links keeps the argument and db0 the
\* table before the call
SaveLinksCall(set) ==
    /\ Resting /\ Len(calls) < MaxCalls
    /\ \E g \in {[Idle(save_links(db, set)) EXCEPT !.links = set,
                                                 !.db0 = db.rows]} :
          Becomes(g)
    /\ twin' = Idle(NewDatabase)
    /\ calls' = Append(calls, "save_links")
    /\ UNCHANGED web

\* another run of _initialize_database on the same file (a second object)
InitializeDatabase ==
    /\ Resting /\ Len(calls) < MaxCalls
    /\ \E g \in {Idle(initialize_database(db))} : Becomes(g)
    /\ twin' = Idle(NewDatabase)
    /\ calls' = Append(calls, "_initialize_database")
    /\ UNCHANGED web

Init ==
    /\ web \in Sites
    /\ \E rows \in InitialRows :
          Is(Idle(initialize_database([exists |-> TRUE, rows |-> rows])))
    /\ calls = <<>>
    /\ twin = Idle(NewDatabase)

CrawlStep == WhileTest \/ ForNext \/ Fetch \/ Persist \/ Mark \/ RoundEnd

Next ==
    \/ \E seed \in Seeds, depth \in 0..MaxDepth : StartCrawl(seed, depth)
    \/ WhileTest
    \/ ForNext
    \/ Fetch
    \/ Persist
    \/ Mark
    \/ RoundEnd
    \/ \E set \in DirectLinkSets : SaveLinksCall(set)
    \/ InitializeDatabase

Spec == Init /\ [][Next]_vars

\* crawl runs in one thread and every call it makes returns: a step that is
\* enabled is taken
FairSpec == Spec /\ WF_vars(CrawlStep)

(***************************************************************************)
(* extract_links called on its own, on bounded texts.                      *)
(***************************************************************************)
\* number of fragments an input text is made of
MaxFragments == 4

Fragments ==
    {HrefPrefix, <<QUOTE>>, <<":">>, <<"#">>, <<"A">>, <<"B">>, <<" ">>}

HtmlInputs ==
    {Flatten(fs) : fs \in UNION {[1..n -> Fragments] : n \in 0..MaxFragments}}
        \cup {site[u] : site \in Sites, u \in {UrlA, UrlB, UrlC}}
        \cup {Doc(<<TitleTalkB>>), Doc(<<TitleBFrag>>)}

InitExtract ==
    /\ web = SiteChain
    /\ \E h \in HtmlInputs : Is([Idle(NewDatabase) EXCEPT !.html = h])
    /\ calls = <<>>
    /\ twin = Idle(NewDatabase)

ExtractLinksCall ==
    /\ pc = "idle"
    /\ pc' = "extracted"
    /\ links' = extract_links(html)
    /\ UNCHANGED <<web, db, start_url, max_depth, to_visit, visited,
                   current_depth, next_to_visit, todo, url, html, net, fetched,
                   db0, calls, twin>>

NextExtract == ExtractLinksCall

ExtractSpec == InitExtract /\ [][NextExtract]_vars

(***************************************************************************)
(* Definitions the properties use.                                         *)
(***************************************************************************)
\* a crawl call is in progress or has returned with its locals still in view
InCrawl == pc \in {"while", "for", "fetch", "check", "mark", "done", "raised"}

\* the set of URLs in the links table
Stored == BagToSet(db.rows)

\* the links of the page the site serves for u (none when it serves none)
LinksOf(u) ==
    IF encoded_url(u) \in DOMAIN web
    THEN extract_links(web[encoded_url(u)]) ELSE {}

\* the URLs at link-distance at most k from the seed
RECURSIVE Within(_)
Within(k) ==
    IF k <= 0 THEN {start_url}
    ELSE UNION {{u} \cup LinksOf(u) : u \in Within(k - 1)}

\* the URLs this crawl has requested
FetchedUrls == {fetched[i].url : i \in 1..Len(fetched)}

\* number of successful fetches of u in this crawl
Successes(u) ==
    Cardinality({i \in 1..Len(fetched) : fetched[i].url = u /\ fetched[i].ok})

(***************************************************************************)
(* Properties.                                                             *)
(***************************************************************************)
\* the positions in the log of the successful fetches of round d
OkFetches(d) ==
    {i \in 1..Len(fetched) : fetched[i].ok /\ fetched[i].depth = d}

\* the URLs fetched in round d
FetchedIn(d) ==
    {fetched[i].url : i \in {k \in 1..Len(fetched) : fetched[k].depth = d}}

\* visited as line 92 leaves it for the i-th fetch of the log: the URLs of
\* the successful fetches up to it
VisitedAt(i) == {fetched[k].url : k \in {n \in 1..i : fetched[n].ok}}

\* visited when round d starts
VisitedBefore(d) ==
    {fetched[i].url :
        i \in {k \in 1..Len(fetched) : fetched[k].ok /\ fetched[k].depth < d}}

\* the links extracted from the pages fetched in round d
RoundLinks(d) == UNION {LinksOf(fetched[i].url) : i \in OkFetches(d)}

\* the loop test of line 81 is about to run after a finished round
RoundBoundary == pc = "while" /\ current_depth >= 1

\* the fetches of the log agree with up, the set of URLs whose fetch gives
\* a page: the outcome of a fetch is fixed per URL
OutcomesAre(up) ==
    \A i \in 1..Len(fetched) : fetched[i].ok <=> fetched[i].url \in up

\* the crawl of lines 77-96 computed round by round from the seed, the site
\* and up alone, without an order inside a round: F is the set of URLs round
\* d fetches, V the visited set when round d starts
Rounds(up) ==
    LET R[d \in 0..MaxDepth + 1] ==
            IF d = 0 THEN [F |-> {start_url}, V |-> {}]
            ELSE LET prev == R[d - 1]
                     seen == prev.V \cup (prev.F \cap up)
                 IN  [F |-> UNION {LinksOf(u) : u \in prev.F \cap up} \ seen,
                      V |-> seen]
    IN  R

\* C1: crawl(seed, 0) never enters the round loop: it performs no fetch and
\* the set of URLs in the links table stays what it was at the call.
C1_ZeroDepthDoesNothing ==
    (InCrawl /\ max_depth = 0) =>
        /\ fetched = <<>>
        /\ Stored = BagToSet(db0)
        /\ pc \in {"while", "done"}

C1_Witness ==
    /\ pc = "done" /\ max_depth = 0 /\ to_visit = {start_url}
    /\ db0 # EmptyBag /\ LinksOf(start_url) # {}

\* C2: with max_depth = N, no URL whose link-distance from the seed is
\* greater than N is ever fetched, whatever fetches fail.
C2_DepthBound ==
    (InCrawl /\ fetched # <<>>) => FetchedUrls \subseteq Within(max_depth)

\* a finished crawl that stored a URL at distance exactly N without fetching
\* it, on a site that has a URL farther than N from the seed
C2_Witness ==
    /\ pc = "done" /\ max_depth >= 1
    /\ Within(max_depth + 1) # Within(max_depth)
    /\ \E u \in Stored \ BagToSet(db0) :
          /\ u \in Within(max_depth) \ Within(max_depth - 1)
          /\ u \notin FetchedUrls

\* C3: crawl terminates: the depth counter starts at 0, grows by exactly 1
\* per round, the loop body runs only while depth < max_depth and the
\* frontier is not empty, and every crawl that was started returns.
C3_Terminates ==
    /\ [][(Resting /\ pc' = "while") => current_depth' = 0]_vars
    /\ [][(pc = "for" /\ pc' = "while") =>
             current_depth' = current_depth + 1]_vars
    /\ [][(pc \in {"while", "for", "fetch", "check", "mark"}
             /\ ~(pc = "for" /\ pc' = "while"))
          => current_depth' = current_depth]_vars
    /\ [](pc \in {"for", "fetch", "check", "mark"} =>
             current_depth < max_depth /\ to_visit # {})
    /\ [](InCrawl => current_depth <= max_depth)
    /\ [](pc = "while" => <>(pc = "done"))

\* a crawl of the cycle A -> B -> A with max_depth = 3 has returned
C3_Witness ==
    /\ pc = "done" /\ web = SiteCycle /\ start_url = UrlA /\ max_depth = 3
    /\ visited = {UrlA, UrlB} /\ current_depth <= 3

\* C4: a URL in Visited is never fetched again: after a successful fetch of
\* a URL no later fetch of this crawl requests it, so every URL is fetched
\* successfully at most once.
C4_NoRefetch ==
    /\ pc = "fetch" => url \notin visited
    /\ InCrawl =>
          \A i \in 1..Len(fetched) : fetched[i].ok =>
              \A j \in (i + 1)..Len(fetched) : fetched[j].url # fetched[i].url

\* the cycle A -> B -> A crawled with max_depth = 3: A was fetched once
C4_Witness ==
    /\ pc = "done" /\ web = SiteCycle /\ start_url = UrlA /\ max_depth = 3
    /\ Successes(UrlA) = 1 /\ Successes(UrlB) = 1 /\ Len(fetched) = 2
    /\ UrlA \in links

\* C5: seed A links to B and Talk:B, max_depth = 1, empty store, the seed
\* page is served: one fetch, Visited = {A}, store = {B}, Frontier = {B},
\* B never fetched.
C5_Scenario ==
    (/\ pc = "done" /\ web = SiteTalk /\ start_url = UrlA /\ max_depth = 1
     /\ db0 = EmptyBag
     /\ \A i \in 1..Len(fetched) : fetched[i].ok)
    => /\ Len(fetched) = 1 /\ fetched[1].url = UrlA
       /\ visited = {UrlA}
       /\ db.rows = SetToBag({UrlB})
       /\ to_visit = {UrlB}
       /\ UrlB \notin FetchedUrls

C5_Witness ==
    /\ pc = "done" /\ web = SiteTalk /\ start_url = UrlA /\ max_depth = 1
    /\ db0 = EmptyBag /\ Len(fetched) = 1 /\ fetched[1].ok
    /\ db.rows = SetToBag({UrlB})

\* the links of every page in Visited, with the table's content at the call
VisitedLinks == BagToSet(db0) \cup UNION {LinksOf(v) : v \in visited}

\* C6 as stated: in every state of a crawl the store equals its content at
\* the call united with the links of every URL in Visited.
C6_StoreEqualsVisitedLinks == InCrawl => Stored = VisitedLinks

\* C6 amended: the store always contains its content at the call and the
\* links of every URL in Visited; it equals that set except between saving
\* a page's links and marking the page visited, when it holds that page's
\* links as well.
C6_StoreCoversVisitedLinks ==
    InCrawl =>
        /\ VisitedLinks \subseteq Stored
        /\ pc # "mark" => Stored = VisitedLinks
        /\ pc = "mark" => /\ links = LinksOf(url)
                          /\ Stored = VisitedLinks \cup links

\* a finished crawl whose store holds a link to a visited page and a link
\* the depth limit kept from being fetched
C6_Witness ==
    /\ pc = "done" /\ Stored = VisitedLinks
    /\ Stored \cap visited # {}
    /\ (Stored \ BagToSet(db0)) \ FetchedUrls # {}

\* C7: the store only grows and never holds a URL twice; every save (by
\* crawl or by a direct call) makes it its previous content united with the
\* saved set, so saving URLs that are present changes nothing.
C7_StoreGrowsWithoutDuplicates ==
    /\ [](\A u \in Stored : CopiesIn(u, db.rows) = 1)
    /\ [](db.exists)
    /\ [][BagToSet(db.rows) \subseteq BagToSet(db'.rows)]_vars
    /\ [][(pc' = "mark" \/ (Resting /\ pc' = "idle")) =>
             /\ BagToSet(db'.rows) = BagToSet(db.rows) \cup links'
             /\ BagCardinality(db'.rows) =
                   BagCardinality(db.rows)
                      + Cardinality(links' \ BagToSet(db.rows))]_vars
    /\ [][(pc' \notin {"mark", "idle"}) => db' = db]_vars

\* the second of two direct calls saved links that were all present
C7_Witness ==
    /\ calls = <<"save_links", "save_links">> /\ pc = "idle"
    /\ links # {} /\ links \subseteq BagToSet(db0)
    /\ db.rows = db0

\* C8: fetch_page never raises: a served page gives its content, every
\* other answer of the network gives the empty text.
C8_FetchNeverRaises ==
    /\ pc # "raised"
    /\ pc = "check" =>
          /\ net = "ok" => html = web[encoded_url(url)]
          /\ net # "ok" => html = <<>>
          /\ net \in NetOutcomes

C8_Witness == pc = "check" /\ net = "decode_error" /\ html = <<>>

\* the text between index b and the next quote of the html, or the text to
\* the end when no quote follows
UpToQuote(text, b) ==
    LET q == CHOOSE k \in b..(Len(text) + 1) :
                 /\ k = Len(text) + 1 \/ text[k] = QUOTE
                 /\ \A j \in b..(k - 1) : text[j] # QUOTE
    IN  [closed |-> q <= Len(text), title |-> SubSeq(text, b, q - 1)]

\* C9: every URL extract_links returns is BASE_URL/wiki/<title> for the
\* title of an anchor href="/wiki/<title>" of the text, the title is not
\* empty and has no ':' and no '#': an anchor whose title has one gives no
\* URL.
C9_ExtractedTitles ==
    pc = "extracted" =>
        \A l \in links :
            \E i \in 1..Len(html) :
                /\ OccursAt(HrefPrefix, html, i)
                /\ LET a == UpToQuote(html, i + Len(HrefPrefix))
                   IN  /\ a.closed
                       /\ a.title # <<>>
                       /\ ":" \notin Range(a.title)
                       /\ "#" \notin Range(a.title)
                       /\ l = <<BASE_URL, "/", "w", "i", "k", "i", "/">> \o a.title

\* the page with anchors B and Talk:B gives the URL of B alone
C9_Witness ==
    /\ pc = "extracted" /\ html = Doc(<<TitleB, TitleTalkB>>)
    /\ links = {UrlB}

\* the locals of a crawl and its fetches, without the database
Locals(f) ==
    [pc |-> f.pc, start_url |-> f.start_url, max_depth |-> f.max_depth,
     to_visit |-> f.to_visit, visited |-> f.visited,
     current_depth |-> f.current_depth, next_to_visit |-> f.next_to_visit,
     todo |-> f.todo, url |-> f.url, html |-> f.html, links |-> f.links,
     fetched |-> f.fetched]

\* C10: a crawl starts with Visited = {}, Frontier = {seed}, depth = 0, and
\* it runs exactly as the crawl of a new object on an empty database does
\* for the same seed, max_depth, site, processing order and network
\* answers: same locals, same fetches, whatever the store held and whatever
\* was called before.
C10_IndependentOfStore ==
    /\ [][(Resting /\ pc' = "while") =>
             /\ visited' = {} /\ to_visit' = {start_url'}
             /\ current_depth' = 0 /\ fetched' = <<>>]_vars
    /\ [](InCrawl => Locals(twin) = Locals(Frame))

\* a second crawl has finished on a store that held a page it fetched
C10_Witness ==
    /\ calls = <<"crawl", "crawl">> /\ pc = "done"
    /\ Len(fetched) >= 2
    /\ FetchedUrls \cap BagToSet(db0) # {}
    /\ twin.db.rows # db.rows

\* C11: when the fetch of a frontier URL returns the empty string, the fetch
\* and the test of its result change nothing but the position in the
\* iteration: visited, next_to_visit, the frontier, the depth and the links
\* table stay as they are, the URL is not marked visited, and the for loop
\* goes on with the members it has left.
C11_FailedFetchChangesNothing ==
    /\ [][(pc = "fetch" /\ pc' = "check" /\ html' = <<>>) =>
             UNCHANGED <<visited, next_to_visit, to_visit, todo,
                         current_depth, db>>]_vars
    /\ [][(pc = "check" /\ html = <<>>) =>
             /\ UNCHANGED <<visited, next_to_visit, to_visit, todo,
                            current_depth, db>>
             /\ url \notin visited'
             /\ pc' = "for"]_vars

\* a crawl went on after a failed fetch: a later member of the same round
\* was fetched, and so was a page of a later round
C11_Witness ==
    \E i, j, k \in 1..Len(fetched) :
       /\ i < j /\ j < k
       /\ ~fetched[i].ok /\ fetched[i].url \notin visited
       /\ fetched[j].ok /\ fetched[j].depth = fetched[i].depth
       /\ fetched[k].depth > fetched[i].depth

\* C12 as stated: at every round boundary the new frontier is the links
\* extracted in the round just finished minus visited, so it holds no URL
\* that is in visited.
C12_FrontierExcludesVisited ==
    RoundBoundary => to_visit = RoundLinks(current_depth - 1) \ visited

\* C12: at every round boundary the new frontier is the union, over the
\* pages fetched successfully in the round just finished, of the page's
\* links minus visited as it stood when the page was marked.  It holds every
\* extracted link that is not in visited and no URL that was in visited when
\* the round started; what it holds beyond visited does not depend on the
\* order of processing.
C12_FrontierAtRoundBoundary ==
    RoundBoundary =>
        LET d == current_depth - 1 IN
        /\ to_visit = UNION {LinksOf(fetched[i].url) \ VisitedAt(i) :
                                i \in OkFetches(d)}
        /\ to_visit \ visited = RoundLinks(d) \ visited
        /\ to_visit \cap VisitedBefore(d) = {}

\* a round boundary whose frontier holds a URL marked visited in the round
\* just finished
C12_Witness ==
    /\ RoundBoundary
    /\ to_visit \cap (visited \ VisitedBefore(current_depth - 1)) # {}

\* C13: the result of a crawl does not depend on the order in which the
\* members of a round are processed: for a seed, a max_depth, a site and a
\* fetch outcome fixed per URL, every finished crawl has fetched in each
\* round the URLs that the round-by-round computation gives, and ends with
\* the visited set and the links table that it gives.
C13_IndependentOfOrder ==
    pc = "done" =>
        \A up \in SUBSET Within(max_depth) :
           OutcomesAre(up) =>
              \E R \in {Rounds(up)} :
                 /\ \A d \in 0..MaxDepth :
                       FetchedIn(d) = IF d < max_depth THEN R[d].F ELSE {}
                 /\ visited = R[max_depth].V
                 /\ Stored = BagToSet(db0)
                                \cup UNION {LinksOf(u) : u \in R[max_depth].V}

\* a finished crawl of the site whose round 1 can leave either of two
\* frontiers, here the one of the order C, B
C13_Witness ==
    /\ pc = "done" /\ web = SiteDiamond /\ start_url = UrlA /\ max_depth = 2
    /\ visited = {UrlA, UrlB, UrlC}
    /\ to_visit = {UrlB}
    /\ OutcomesAre(visited)

\* C14: visited only grows during a crawl and holds only pages processed
\* successfully: every URL in visited was a member of a frontier of this
\* crawl and its fetch in this crawl gave a non-empty page; no step of the
\* crawl removes a URL from visited.
C14_VisitedGrowsWithSuccesses ==
    /\ [][(pc \in {"while", "for", "fetch", "check", "mark"})
             => (visited \subseteq visited')]_vars
    /\ [](InCrawl => visited \subseteq {fetched[i].url : i \in
                        {k \in 1..Len(fetched) : fetched[k].ok}})
    /\ [](pc \in {"fetch", "check", "mark"} => url \in to_visit)

\* a finished crawl that fetched a page with success and another without:
\* visited holds the first and not the second
C14_Witness ==
    /\ pc = "done"
    /\ \E i, j \in 1..Len(fetched) :
          /\ fetched[i].ok /\ fetched[i].url \in visited
          /\ ~fetched[j].ok /\ fetched[j].url \notin visited
          /\ fetched[i].depth >= 1

\* u is in the form in which fetch_page requests it (lines 46-48)
Canonical(u) == encoded_url(u) = u

\* u and v are spellings of one article address: equal, or one is the
\* percent-encoded form of the other
SameArticle(u, v) == u = v \/ encoded_url(u) = v \/ encoded_url(v) = u

\* C15: every URL in the frontier, in next_to_visit, in visited or written
\* to the links table by the crawl is in the canonical form in which
\* fetch_page requests it, the seed included; so two spellings of one
\* article address are never fetched as two URLs.
C15_OneCanonicalForm ==
    InCrawl =>
        /\ \A u \in to_visit \cup next_to_visit \cup visited
                       \cup (Stored \ BagToSet(db0)) : Canonical(u)
        /\ \A i, j \in 1..Len(fetched) :
              SameArticle(fetched[i].url, fetched[j].url)
                 => fetched[i].url = fetched[j].url

\* the fetch of u failed in a round before round j
FailedBefore(u, j) ==
    \E k \in 1..Len(fetched) :
       fetched[k].url = u /\ ~fetched[k].ok /\ fetched[k].depth < j

\* C16: a URL whose fetch returned the empty string is not retried on its
\* own: no URL is fetched twice in one round, and a fetch in round j >= 1
\* is of a URL that a page fetched successfully in round j - 1 links to.
\* As the URL is not in visited, such a link does cause a new fetch: in a
\* finished crawl, a URL that failed before round j < max_depth, is linked
\* from a page fetched successfully in round j - 1 and is not in visited
\* when round j starts has been fetched in round j.
C16_RetryOnlyWhenLinkedAgain ==
    /\ \A i, j \in 1..Len(fetched) :
          (fetched[i].url = fetched[j].url
              /\ fetched[i].depth = fetched[j].depth) => i = j
    /\ \A i \in 1..Len(fetched) :
          fetched[i].depth >= 1 =>
             fetched[i].url \in RoundLinks(fetched[i].depth - 1)
    /\ pc = "done" =>
          \A j \in 1..(max_depth - 1) :
             \A u \in RoundLinks(j - 1) \ VisitedBefore(j) :
                FailedBefore(u, j) => u \in FetchedIn(j)

\* a finished crawl in which a URL failed in one round and, linked again
\* from a page of the next round, was fetched again in the round after
C16_Witness ==
    /\ pc = "done"
    /\ \E i, k \in 1..Len(fetched) :
          /\ fetched[i].url = fetched[k].url
          /\ ~fetched[i].ok
          /\ fetched[k].depth = fetched[i].depth + 1
          /\ fetched[i].depth >= 1

\* the URLs at link-distance exactly d from the seed
AtDistance(d) == IF d <= 0 THEN {start_url} ELSE Within(d) \ Within(d - 1)

\* every fetch of this crawl gave a page
AllFetchesSucceeded == \A i \in 1..Len(fetched) : fetched[i].ok

\* C17: when every fetch succeeds and the seed is in canonical form, a
\* finished crawl(seed, N) has fetched each URL once, in the round equal to
\* its link-distance from the seed; visited is the set of URLs at distance
\* less than N; and the links table has gained the URLs at distance 1..N,
\* and the seed if a visited page links to it.
C17_BreadthFirstComplete ==
    (pc = "done" /\ AllFetchesSucceeded /\ Canonical(start_url)) =>
        /\ \A d \in 0..MaxDepth :
              FetchedIn(d) = IF d < max_depth THEN AtDistance(d) ELSE {}
        /\ \A i, j \in 1..Len(fetched) :
              fetched[i].url = fetched[j].url => i = j
        /\ visited = IF max_depth = 0 THEN {} ELSE Within(max_depth - 1)
        /\ Stored = BagToSet(db0)
                       \cup (IF max_depth = 0 THEN {}
                             ELSE Within(max_depth) \ {start_url})
                       \cup (IF \E v \in visited : start_url \in LinksOf(v)
                             THEN {start_url} ELSE {})

\* a finished crawl of three rounds, all fetches successful, that stored a
\* URL at distance 3 without fetching it
C17_Witness ==
    /\ pc = "done" /\ AllFetchesSucceeded /\ Canonical(start_url)
    /\ max_depth = 3 /\ Len(fetched) = 3
    /\ fetched[3].depth = 2
    /\ AtDistance(3) # {} /\ AtDistance(3) \subseteq Stored \ BagToSet(db0)
    /\ start_url \notin Stored

\* C18: in every state of a crawl, every URL in the frontier, in
\* next_to_visit or in visited, other than the seed, is in the links table;
\* so no URL other than the seed is fetched before it has been stored.
C18_StoredBeforeFetched ==
    InCrawl =>
        /\ (to_visit \cup next_to_visit \cup visited) \ {start_url}
              \subseteq Stored
        /\ pc \in {"fetch", "check", "mark"} =>
              (url = start_url \/ url \in Stored)

\* a page other than the seed is about to be fetched, and the table holds
\* its URL because this crawl stored it
C18_Witness ==
    /\ pc = "fetch" /\ url # start_url
    /\ url \in Stored \ BagToSet(db0)
    /\ next_to_visit # {}

====
